---- MODULE Spec2Model ----
(***************************************************************************)
(* Model of the import-mayorista worker: the Google service-account token  *)
(* cache (google-auth.js, getAccessToken), the three Sheets entry points   *)
(* that request a token (readProducts, appendOrder, readConfig), the      *)
(* request handlers that start them (handleGetProducts, handleSaveOrder,   *)
(* handleGetCategories) and the base64url encoding of the assertion.       *)
(*                                                                         *)
(* A "flow" is one invocation of an entry point.  JavaScript runs each     *)
(* flow without interruption between two awaits, so every action below is  *)
(* one such synchronous segment: from the event that resumes the flow to   *)
(* the next await (or to the end), continuations of the handler included.  *)
(* Time is in milliseconds, as Date.now() gives it.                        *)
(***************************************************************************)
EXTENDS Integers, Sequences, FiniteSets

\* ------------------------------------------------------------ bounds
\* Number of entry-point invocations (flows) over a run.
MaxFlows == 3
\* Number of times the clock advances over a run.
MaxTicks == 2

\* ------------------------------------------------- program constants
\* The refresh skew of the cache check: now < tokenExpiry - 60000.
Skew == 60000
\* expires_in is in seconds: tokenExpiry = now + expires_in * 1000.
MsPerSecond == 1000
\* let cachedToken = null: no token is the falsy value 0 here.
NullToken == 0
\* ORDER_RULES.MIN_TOTAL
DefaultMinTotal == 100000

\* ------------------------------------------------------------ inputs
\* Amounts by which the clock advances.  A token cached at T with expires_in
\* 3600 has its refresh threshold at T + 3540000: one step later the clock is
\* before the threshold, two steps later exactly on it; a token with
\* expires_in 60 has its threshold at T and is past it after one step.
TickSteps == {1770000}
\* expires_in of a successful exchange: 60 s is stale at once (its refresh
\* threshold is the entry time itself), 3600 s is the usual lifetime.
ExpiresInSet == {60, 3600}
\* Non-success HTTP statuses of the token endpoint.
FailStatuses == {401}
\* env.GOOGLE_CLIENT_EMAIL: undefined, "" or a service-account address.
EmailKinds == {"missing", "empty", "valid"}
\* env.GOOGLE_PRIVATE_KEY: undefined, "", a PEM whose body is not base64
\* (atob throws), a PEM whose bytes are not a PKCS#8 RSA key (importKey
\* rejects), a key that imports but with which sign rejects, and a good key.
KeyKinds == {"missing", "empty", "malformed", "badder", "corrupt", "valid"}

\* JavaScript truthiness of a binding: undefined and "" are falsy.
Truthy(kind) == kind \notin {"missing", "empty"}

\* The response body text the token endpoint sends with a failure status.
BodyText(status) == IF status = 401 THEN "invalid_grant" ELSE "error"

NoResponse ==
    [ok |-> FALSE, status |-> 0, access_token |-> NullToken, expires_in |-> 0,
     text |-> ""]

\* ------------------------------------------------------------- state
VARIABLES
    clock,        \* Date.now()
    ticks,        \* how many times the clock has advanced
    env,          \* the worker's bindings: [email, key]
    cachedToken,  \* let cachedToken = null
    tokenExpiry,  \* let tokenExpiry = 0
    flows,        \* flows[f]: the state of entry-point invocation f
    reqs,         \* reqs[r]: the state of HTTP request r
    codec,        \* a string handed to base64UrlEncode and what came of it
    validUntil    \* the time until which the token endpoint honours the
                  \* cached token (the code has no such record)

vars == <<clock, ticks, env, cachedToken, tokenExpiry, flows, reqs, codec,
          validUntil>>

Flows == 1..MaxFlows

\* What the token endpoint can answer to the exchange of flow f.  The token
\* of flow f's exchange is named f: every exchange yields a token of its own.
\* The endpoint grants a token only to an assertion that names an issuer.
TokenResponses(f) ==
    {[ok |-> TRUE, status |-> 200, access_token |-> f, expires_in |-> e,
      text |-> ""] : e \in IF Truthy(env.email) THEN ExpiresInSet ELSE {}}
    \cup
    {[ok |-> FALSE, status |-> s, access_token |-> NullToken, expires_in |-> 0,
      text |-> BodyText(s)] : s \in FailStatuses}

\* The token endpoint issued the token of flow f's exchange at some time
\* from the call's entry on and no later than now; it honours the token for
\* expires_in seconds from then.
IssueTimes(f) == {flows[f].now, clock}
HonouredUntil(f) ==
    {t + flows[f].resp.expires_in * MsPerSecond : t \in IssueTimes(f)}

NoError == [kind |-> "none", status |-> 0, text |-> ""]

Err(kind) == [kind |-> kind, status |-> 0, text |-> ""]

\* No assertion.
NoJwt ==
    [header |-> [alg |-> "", typ |-> ""],
     claims |-> [iss |-> "", scope |-> "", aud |-> "", exp |-> 0, iat |-> 0]]

\* A flow that has not started.
\*   pc       where the flow is suspended ("done": it has returned or thrown)
\*   caller   the entry point; req: the request that started it
\*   entered  getAccessToken was called
\*   now      getAccessToken's local: the clock it read at entry
\*   hit      the entry check returned the cached token
\*   signing  generateJWT reached crypto.subtle (importKey, sign)
\*   posted   the token-endpoint POST was issued
\*   jwt      getAccessToken's assertion: header and claim set as
\*            generateJWT built them
\*   resp     getAccessToken's local: the response being handled
\*   wrote    the flow wrote the cache
\*   tok      what getAccessToken returned (NullToken: nothing)
\*   err      what the flow threw
\*   sheets   the number of Sheets requests the flow issued
\*   val      what the entry point returned ("": nothing yet or threw)
\*   min      the MIN_TOTAL of the config readConfig returned (-1: none)
\* and, recorded for the properties only (the code keeps none of it):
\*   seenTok    cachedToken as it was when getAccessToken was entered
\*   afterFail  at entry, an exchange had failed while the token then cached
\*              was in the cache
\*   left       cachedToken as it was when the flow's exchange failed
IdleFlow ==
    [pc |-> "idle", caller |-> "none", req |-> 0, entered |-> FALSE, now |-> 0,
     hit |-> FALSE, signing |-> FALSE, jwt |-> NoJwt,
     posted |-> FALSE, resp |-> NoResponse, wrote |-> FALSE, tok |-> NullToken,
     err |-> NoError, sheets |-> 0, val |-> "", min |-> -1,
     seenTok |-> NullToken, afterFail |-> FALSE, left |-> NullToken]


\* ------------------------------------------------ orders and config
\* A JSON value of an order item: a number, or a string that is no number.
JsonNum(n) == [str |-> FALSE, n |-> n]
JsonStr == [str |-> TRUE, n |-> 0]

\* JavaScript Number(v): NaN for a string that is no number.
ToNumber(v) == [nan |-> v.str, n |-> v.n]
\* a * b and a + b on JavaScript numbers: NaN is absorbing.
NumMul(a, b) == [nan |-> a.nan \/ b.nan, n |-> a.n * b.n]
NumAdd(a, b) == [nan |-> a.nan \/ b.nan, n |-> a.n + b.n]
\* a < m for a JavaScript number a and a finite m: false when a is NaN.
NumLess(a, m) == ~a.nan /\ a.n < m

Item(price, qty) == [price |-> price, qty |-> qty]

\* The order bodies a client posts.  client: "full" has name, phone and
\* email; "noemail" lacks the email; "absent" is an order with no client.
GoodOrder == [client |-> "full", items |-> <<Item(JsonNum(60000), JsonNum(2))>>]

Orders ==
    {GoodOrder,
     [client |-> "full", items |-> <<Item(JsonNum(60000), JsonNum(1))>>],
     [client |-> "full", items |-> <<>>],
     [client |-> "noemail", items |-> <<Item(JsonNum(60000), JsonNum(2))>>],
     [client |-> "absent", items |-> <<Item(JsonNum(60000), JsonNum(2))>>],
     [client |-> "full", items |-> <<Item(JsonStr, JsonNum(2))>>]}

NoOrder == [client |-> "absent", items |-> <<>>]

\* No MIN_TOTAL key in the config readConfig returned (parseFloat of the
\* sanitized cell is never negative).
NoMin == -1
\* The MIN_TOTAL values a Config sheet holds.
SheetMinTotals == {50000}

\* order.items.reduce((s, it) => s + Number(it.price) * Number(it.qty), 0)
RECURSIVE RawTotal(_)
RawTotal(items) ==
    IF items = <<>> THEN [nan |-> FALSE, n |-> 0]
    ELSE LET k == Len(items)
             it == items[k]
         IN NumAdd(RawTotal(SubSeq(items, 1, k - 1)),
                   NumMul(ToNumber(it.price), ToNumber(it.qty)))

\* rules = { ...ORDER_RULES, ...sheetConfig }; rules.MIN_TOTAL
EffectiveMinTotal(min) == IF min = NoMin THEN DefaultMinTotal ELSE min

\* --------------------------------------------------- base64url
\* Strings are sequences of code units 0..255 (btoa takes no other), encoded
\* text is a sequence of characters.
\* Longest string handed to base64UrlEncode.
MaxStrLen == 4
\* Code units: 0 encodes to 'A's, 251 and 255 bring '+' and '/' into the
\* base64 text, 123 is '{'.
Alphabet == {0, 123, 251, 255}

RECURSIVE StringsOfLen(_)
StringsOfLen(n) ==
    IF n = 0 THEN {<<>>}
    ELSE {Append(t, c) : t \in StringsOfLen(n - 1), c \in Alphabet}

\* The strings over Alphabet of length 0..n.
Strings(n) == UNION {StringsOfLen(k) : k \in 0..n}

\* The base64 alphabet, by sextet value.
Base64Chars ==
    <<"A", "B", "C", "D", "E", "F", "G", "H", "I", "J", "K", "L", "M", "N", "O", "P",
      "Q", "R", "S", "T", "U", "V", "W", "X", "Y", "Z", "a", "b", "c", "d", "e", "f",
      "g", "h", "i", "j", "k", "l", "m", "n", "o", "p", "q", "r", "s", "t", "u", "v",
      "w", "x", "y", "z", "0", "1", "2", "3", "4", "5", "6", "7", "8", "9", "+", "/">>

\* btoa(str): three code units give four characters; a last group of one or
\* two is padded with '='.
RECURSIVE Btoa(_)
Btoa(str) ==
    IF str = <<>> THEN <<>>
    ELSE LET b1 == str[1]
             b2 == IF Len(str) >= 2 THEN str[2] ELSE 0
             b3 == IF Len(str) >= 3 THEN str[3] ELSE 0
             c1 == Base64Chars[(b1 \div 4) + 1]
             c2 == Base64Chars[((b1 % 4) * 16 + (b2 \div 16)) + 1]
             c3 == Base64Chars[((b2 % 16) * 4 + (b3 \div 64)) + 1]
             c4 == Base64Chars[(b3 % 64) + 1]
         IN IF Len(str) = 1 THEN <<c1, c2, "=", "=">>
            ELSE IF Len(str) = 2 THEN <<c1, c2, c3, "=">>
            ELSE <<c1, c2, c3, c4>> \o Btoa(SubSeq(str, 4, Len(str)))

\* text.replace(/from/g, to) for a one-character pattern.
ReplaceAll(text, from, to) ==
    [i \in 1..Len(text) |-> IF text[i] = from THEN to ELSE text[i]]

\* text.replace(/=+$/, '')
RECURSIVE StripPadding(_)
StripPadding(text) ==
    IF text # <<>> /\ text[Len(text)] = "="
    THEN StripPadding(SubSeq(text, 1, Len(text) - 1))
    ELSE text

\* base64UrlEncode that leaves the padding on.
Base64UrlEncodePadded(str) ==
    ReplaceAll(ReplaceAll(Btoa(str), "+", "-"), "/", "_")

\* btoa(str).replace(/\+/g, '-').replace(/\//g, '_').replace(/=+$/, '')
Base64UrlEncode(str) ==
    StripPadding(ReplaceAll(ReplaceAll(Btoa(str), "+", "-"), "/", "_"))

\* arrayBufferToBase64Url(buffer): the bytes as a binary string, encoded.
ArrayBufferToBase64Url(buffer) == Base64UrlEncode(buffer)

\* JSON.stringify(header): {"alg":"RS256","typ":"JWT"}
HeaderJson ==
    <<123, 34, 97, 108, 103, 34, 58, 34, 82, 83, 50, 53, 54, 34, 44, 34, 116, 121, 112, 34, 58, 34, 74, 87, 84, 34, 125>>

\* JSON.stringify(claimSet): an object's text, between braces.
ClaimsJson(body) == <<123>> \o body \o <<125>>

\* The signatures crypto.subtle.sign gives.
Signatures == {<<251, 255, 0>>, <<255, 251>>, <<0>>}

\* `${encodedHeader}.${encodedClaimSet}.${encodedSignature}`
SignedToken(headerJson, claimsJson, signatureBuffer) ==
    Base64UrlEncode(headerJson) \o <<".">> \o Base64UrlEncode(claimsJson)
        \o <<".">> \o ArrayBufferToBase64Url(signatureBuffer)

\* Nothing handed to the encoder.
NoCodec == [str |-> <<>>, encoded |-> FALSE, out |-> <<>>, jwt |-> <<>>]

\* ------------------------------------------------- getAccessToken
\* The cache check with the boundary instant counted as still valid.
CacheValidInclusive(tok, exp, now) == tok # NullToken /\ now <= exp - Skew

\* if (cachedToken && now < tokenExpiry - 60000)
CacheValid(tok, exp, now) == tok # NullToken /\ now < exp - Skew

\* importPrivateKey up to its await: pem.replace throws on undefined,
\* atob throws on a body that is not base64.
KeySyncError(key) ==
    IF key = "missing" THEN "TypeError"
    ELSE IF key = "malformed" THEN "InvalidCharacterError"
    ELSE "none"

\* getAccessToken has returned or thrown: its locals are gone.
Left(fl) == [fl EXCEPT !.now = 0, !.jwt = NoJwt, !.resp = NoResponse]

\* A flow that has settled.
Settled(fl) == [Left(fl) EXCEPT !.pc = "done"]

\* The flow once getAccessToken has returned token t: an entry point goes on
\* to its first Sheets request; a bare call is over.
AfterToken(fl, t) ==
    IF fl.caller = "getAccessToken"
    THEN Settled([fl EXCEPT !.tok = t, !.val = "token"])
    ELSE [Left(fl) EXCEPT !.tok = t, !.pc = "sheets", !.sheets = 1]

\* The flow once it has thrown e, and once it has returned v.
Thrown(fl, e) == Settled([fl EXCEPT !.err = e])
Returned(fl, v) == Settled([fl EXCEPT !.val = v])

\* The validity window of an assertion, in seconds.
AssertionLifetime == 3600
\* Date.now() / 1000
MsPerSec == 1000

\* The claim set with iat in milliseconds, as Date.now() gives it.
ClaimSetMillis(clientEmail, dateNow) ==
    [iss |-> clientEmail,
     scope |-> "https://www.googleapis.com/auth/spreadsheets",
     aud |-> "https://oauth2.googleapis.com/token",
     exp |-> dateNow + AssertionLifetime,
     iat |-> dateNow]

\* generateJWT's claimSet; now = Math.floor(Date.now() / 1000).
ClaimSet(clientEmail, dateNow) ==
    LET now == dateNow \div MsPerSec
    IN [iss |-> clientEmail,
        scope |-> "https://www.googleapis.com/auth/spreadsheets",
        aud |-> "https://oauth2.googleapis.com/token",
        exp |-> now + AssertionLifetime,
        iat |-> now]

\* generateJWT's header.
JwtHeader == [alg |-> "RS256", typ |-> "JWT"]

\* generateJWT up to its first await: it reads the clock itself, in the turn
\* of the getAccessToken call that called it, and builds header and claims.
UnsignedToken(clientEmail) ==
    [header |-> JwtHeader, claims |-> ClaimSet(clientEmail, clock)]

\* Some exchange has failed while token t was the cached one.
FailedWith(t) ==
    t # NullToken /\ \E g \in Flows : flows[g].posted /\ flows[g].err.kind # "none"
                                        /\ flows[g].left = t

\* getAccessToken without its cache check.
GetAccessTokenEntryNoCache(fl) ==
    LET seen == [fl EXCEPT !.entered = TRUE, !.now = clock,
                           !.seenTok = cachedToken,
                           !.afterFail = FailedWith(cachedToken)]
    IN IF KeySyncError(env.key) # "none"
       THEN Thrown(seen, Err(KeySyncError(env.key)))
       ELSE [seen EXCEPT !.pc = "jwt", !.signing = TRUE,
                         !.jwt = UnsignedToken(env.email)]

\* getAccessToken that, on a miss, awaits the exchange of a call already in
\* flight instead of starting its own.
GetAccessTokenEntryAwaitsInFlight(fl) ==
    LET seen == [fl EXCEPT !.entered = TRUE, !.now = clock,
                           !.seenTok = cachedToken,
                           !.afterFail = FailedWith(cachedToken)]
    IN IF CacheValid(cachedToken, tokenExpiry, clock)
       THEN AfterToken([seen EXCEPT !.hit = TRUE], cachedToken)
       ELSE IF \E g \in Flows : flows[g].pc \in {"jwt", "fetch", "body"}
            THEN [seen EXCEPT !.pc = "wait"]
            ELSE IF KeySyncError(env.key) # "none"
                 THEN Thrown(seen, Err(KeySyncError(env.key)))
                 ELSE [seen EXCEPT !.pc = "jwt", !.signing = TRUE,
                                   !.jwt = UnsignedToken(env.email)]

\* getAccessToken from its entry to its first await: the clock is read, the
\* cache checked, and on a miss generateJWT runs up to crypto.subtle.importKey
\* (the flow then awaits generateJWT).
GetAccessTokenEntry(fl) ==
    LET now == clock
        seen == [fl EXCEPT !.entered = TRUE, !.now = now,
                           !.seenTok = cachedToken,
                           !.afterFail = FailedWith(cachedToken)]
    IN IF CacheValid(cachedToken, tokenExpiry, now)
       THEN AfterToken([seen EXCEPT !.hit = TRUE], cachedToken)
       ELSE IF KeySyncError(env.key) # "none"
            THEN Thrown(seen, Err(KeySyncError(env.key)))
            ELSE [seen EXCEPT !.pc = "jwt", !.signing = TRUE,
                              !.jwt = UnsignedToken(env.email)]

\* readProducts up to its first await: the two configuration checks, then
\* getAccessToken.
ReadProductsEntry(fl) ==
    IF ~Truthy(env.key) THEN Thrown(fl, Err("MISSING_SECRET"))
    ELSE IF ~Truthy(env.email) THEN Thrown(fl, Err("MISSING_VAR"))
    ELSE GetAccessTokenEntry(fl)

\* appendOrder and readConfig call getAccessToken first thing.
AppendOrderEntry(fl) == GetAccessTokenEntry(fl)
ReadConfigEntry(fl) == GetAccessTokenEntry(fl)

\* readCategories (sheets-client.js) up to its first await: a caller of the
\* broker as the specification describes one: the identity fields are
\* checked, then the token is requested.
ReadCategoriesEntry(fl) ==
    IF ~Truthy(env.key) \/ ~Truthy(env.email) THEN Thrown(fl, Err("ConfigurationError"))
    ELSE GetAccessTokenEntry(fl)

\* Flow f of request r as its entry point leaves it at its first await.
StartFlow(caller, r) ==
    LET fl == [IdleFlow EXCEPT !.caller = caller, !.req = r]
    IN CASE caller = "readProducts" -> ReadProductsEntry(fl)
         [] caller = "appendOrder" -> AppendOrderEntry(fl)
         [] caller = "readConfig" -> ReadConfigEntry(fl)
         [] caller = "readCategories" -> ReadCategoriesEntry(fl)
         [] OTHER -> GetAccessTokenEntry(fl)

\* ------------------------------------------------------- handlers
\* A free flow slot, the lowest one.
FreeSlots == {f \in Flows : flows[f].pc = "idle"}
IsNextFree(f) == f \in FreeSlots /\ \A g \in FreeSlots : f <= g

Failed(fl) == fl.pc = "done" /\ fl.err.kind # "none"

Request(kind, order, status) == [kind |-> kind, order |-> order, status |-> status]

\* The two reads awaited with Promise.allSettled: a rejection is no failure.
ProductsStatusAllSettled(fl, r, old) ==
    IF old # 0 THEN old
    ELSE IF \A g \in Flows : fl[g].req = r => fl[g].pc = "done" THEN 200
    ELSE 0

\* handleGetProducts after one of its two reads settled: Promise.all rejects
\* with the first rejection (fetch answers 500) and resolves when both reads
\* have (200).  old is the status already sent, 0 when none.
ProductsStatus(fl, r, old) ==
    IF old # 0 THEN old
    ELSE IF \E g \in Flows : fl[g].req = r /\ Failed(fl[g]) THEN 500
    ELSE IF \A g \in Flows : fl[g].req = r => fl[g].pc = "done" THEN 200
    ELSE 0

\* handleSaveOrder once readConfig (flow f) has settled: a failure leaves
\* through fetch's catch (500); otherwise the total is recomputed, checked
\* against MIN_TOTAL (400) and appendOrder is started on slot g.
SaveOrderAfterConfig(fl, f, g) ==
    LET r == fl[f].req
        rawTotal == RawTotal(reqs[r].order.items)
        minTotal == EffectiveMinTotal(fl[f].min)
        app == StartFlow("appendOrder", r)
    IN IF Failed(fl[f])
       THEN [flows |-> fl, reqs |-> [reqs EXCEPT ![r].status = 500]]
       ELSE IF NumLess(rawTotal, minTotal)
            THEN [flows |-> fl, reqs |-> [reqs EXCEPT ![r].status = 400]]
            ELSE [flows |-> [fl EXCEPT ![g] = app],
                  reqs |-> [reqs EXCEPT ![r].status =
                                IF Failed(app) THEN 500 ELSE 0]]

\* Whether the settling of flow f (as record rec) makes handleSaveOrder
\* start appendOrder.
StartsAppend(f, rec) ==
    /\ rec.pc = "done"
    /\ rec.caller = "readConfig"
    /\ rec.req # 0
    /\ reqs[rec.req].kind = "order"
    /\ ~Failed(rec)
    /\ ~NumLess(RawTotal(reqs[rec.req].order.items), EffectiveMinTotal(rec.min))

\* The handler's continuation once flow f has settled.
Continue(fl, f, g) ==
    LET r == fl[f].req
    IN IF reqs[r].kind = "products"
       THEN [flows |-> fl,
             reqs |-> [reqs EXCEPT ![r].status = ProductsStatus(fl, r, @)]]
       ELSE IF fl[f].caller = "readConfig"
            THEN SaveOrderAfterConfig(fl, f, g)
            ELSE [flows |-> fl,
                  reqs |-> [reqs EXCEPT ![r].status =
                                IF Failed(fl[f]) THEN 500 ELSE 200]]

\* Flow f moves to rec; when that settles it, its handler continues in the
\* same turn.  A continuation that starts appendOrder needs a free slot.
Step(f, rec) ==
    \E g \in Flows :
        /\ IF StartsAppend(f, rec) THEN IsNextFree(g) ELSE g = f
        /\ LET fl == [flows EXCEPT ![f] = rec]
               out == IF rec.pc = "done" /\ rec.req # 0 THEN Continue(fl, f, g)
                      ELSE [flows |-> fl, reqs |-> reqs]
           IN /\ flows' = out.flows
              /\ reqs' = out.reqs

\* ------------------------------------------------------- actions
\* The worker starts at clock value start.
InitAt(start) ==
    /\ clock = start
    /\ ticks = 0
    /\ env \in [email : EmailKinds, key : KeyKinds]
    /\ cachedToken = NullToken
    /\ tokenExpiry = 0
    /\ flows = [f \in Flows |-> IdleFlow]
    /\ reqs = <<>>
    /\ codec = NoCodec
    /\ validUntil = 0

Init == InitAt(0)

\* The encoder is handed a string over Alphabet.
InitCodec ==
    /\ clock = 0
    /\ ticks = 0
    /\ env = [email |-> "valid", key |-> "valid"]
    /\ cachedToken = NullToken
    /\ tokenExpiry = 0
    /\ flows = [f \in Flows |-> IdleFlow]
    /\ reqs = <<>>
    /\ codec \in {[NoCodec EXCEPT !.str = t] : t \in Strings(MaxStrLen)}
    /\ validUntil = 0

\* base64UrlEncode(codec.str)
EncodeCall ==
    /\ ~codec.encoded
    /\ codec' = [codec EXCEPT !.encoded = TRUE, !.out = Base64UrlEncode(codec.str)]
    /\ UNCHANGED <<validUntil, clock, ticks, env, cachedToken, tokenExpiry, flows, reqs>>

\* generateJWT assembles the assertion of a claim set whose text has body
\* codec.str, signed with sig.
AssembleCall ==
    /\ codec.jwt = <<>>
    /\ \E sig \in Signatures :
          codec' = [codec EXCEPT !.jwt = SignedToken(HeaderJson, ClaimsJson(codec.str), sig)]
    /\ UNCHANGED <<validUntil, clock, ticks, env, cachedToken, tokenExpiry, flows, reqs>>

\* Time passes.
Tick ==
    /\ ticks < MaxTicks
    /\ \E d \in TickSteps : clock' = clock + d
    /\ ticks' = ticks + 1
    /\ UNCHANGED <<validUntil, codec, env, cachedToken, tokenExpiry, flows, reqs>>

\* getAccessToken(env.GOOGLE_CLIENT_EMAIL, env.GOOGLE_PRIVATE_KEY) is called,
\* by whichever caller (request 0: no handler is modelled behind it).
Call ==
    \E f \in Flows :
        /\ IsNextFree(f)
        /\ flows' = [flows EXCEPT ![f] = StartFlow("getAccessToken", 0)]
        /\ UNCHANGED <<validUntil, codec, clock, ticks, env, cachedToken, tokenExpiry, reqs>>

\* GET /api/products: readProducts and readConfig are both started, in this
\* order, before either is awaited.
HandleGetProducts ==
    \E f \in Flows :
        /\ IsNextFree(f)
        /\ f + 1 \in Flows
        /\ LET r == Len(reqs) + 1
               products == StartFlow("readProducts", r)
               config == StartFlow("readConfig", r)
           IN /\ flows' = [flows EXCEPT ![f] = products, ![f + 1] = config]
              /\ reqs' = Append(reqs, Request("products", NoOrder,
                            IF Failed(products) \/ Failed(config) THEN 500 ELSE 0))
        /\ UNCHANGED <<validUntil, codec, clock, ticks, env, cachedToken, tokenExpiry>>

\* GET /api/categories: readCategories is awaited; fetch's catch answers 500
\* when it throws.
HandleGetCategories ==
    \E f \in Flows :
        /\ IsNextFree(f)
        /\ LET r == Len(reqs) + 1
               categories == StartFlow("readCategories", r)
           IN /\ flows' = [flows EXCEPT ![f] = categories]
              /\ reqs' = Append(reqs, Request("categories", NoOrder,
                            IF Failed(categories) THEN 500 ELSE 0))
        /\ UNCHANGED <<validUntil, codec, clock, ticks, env, cachedToken, tokenExpiry>>

\* !order || !order.client || !order.items || !order.items.length
OrderIncomplete(order) == order.client = "absent" \/ order.items = <<>>
\* !order.client.name || !order.client.phone || !order.client.email
ClientIncomplete(order) == order.client # "full"

\* POST /api/orders, up to the await of readConfig: the two checks of the
\* body (400), then readConfig.
HandleSaveOrder(order) ==
        /\ Len(reqs) < MaxFlows
        /\ LET r == Len(reqs) + 1
           IN IF OrderIncomplete(order) \/ ClientIncomplete(order)
              THEN /\ reqs' = Append(reqs, Request("order", order, 400))
                   /\ flows' = flows
              ELSE \E f \in Flows :
                     /\ IsNextFree(f)
                     /\ LET config == StartFlow("readConfig", r)
                        IN /\ flows' = [flows EXCEPT ![f] = config]
                           /\ reqs' = Append(reqs, Request("order", order,
                                         IF Failed(config) THEN 500 ELSE 0))
        /\ UNCHANGED <<validUntil, codec, clock, ticks, env, cachedToken, tokenExpiry>>

\* What a Sheets request can come to: a success response, a non-success
\* response, or a fetch that rejects.
SheetsOutcomes == {"ok", "notok", "reject"}

\* generateJWT with a rejection of sign swallowed.
JwtErrorSignIgnored(key) ==
    IF key \in {"empty", "badder"} THEN "DataError" ELSE "none"

\* What generateJWT comes to once crypto.subtle has settled: importKey
\* rejects bytes that are no PKCS#8 RSA key (an empty key among them), sign
\* may reject; otherwise the assertion is complete.
JwtError(key) ==
    IF key \in {"empty", "badder"} THEN "DataError"
    ELSE IF key = "corrupt" THEN "OperationError"
    ELSE "none"

\* await generateJWT(...) settles: a rejection is thrown on by
\* getAccessToken; otherwise the POST to the token endpoint is issued.
GenerateJWTDone(f) ==
    /\ flows[f].pc = "jwt"
    /\ Step(f, IF JwtError(env.key) # "none"
               THEN Thrown(flows[f], Err(JwtError(env.key)))
               ELSE [flows[f] EXCEPT !.pc = "fetch", !.posted = TRUE])
    /\ UNCHANGED <<validUntil, codec, clock, ticks, env, cachedToken, tokenExpiry>>

\* The token endpoint answers with r; getAccessToken goes on to read the
\* body (response.text() or response.json()).
TokenResponse(f, r) ==
    /\ flows[f].pc = "fetch"
    /\ r \in TokenResponses(f)
    /\ Step(f, [flows[f] EXCEPT !.pc = "body", !.resp = r])
    /\ UNCHANGED <<validUntil, codec, clock, ticks, env, cachedToken, tokenExpiry>>

\* The fetch of the token endpoint rejects (no response at all).
TokenReject(f) ==
    /\ flows[f].pc = "fetch"
    /\ Step(f, Thrown([flows[f] EXCEPT !.left = cachedToken], Err("NetworkError")))
    /\ UNCHANGED <<validUntil, codec, clock, ticks, env, cachedToken, tokenExpiry>>

\* new Error(`Google Auth Failed: ${response.status} - ${text}`)
AuthFailed(resp) ==
    [kind |-> "GoogleAuthFailed", status |-> resp.status, text |-> resp.text]

\* The expiry taken from the time the response arrived, and the expiry with
\* expires_in taken for milliseconds.
NewExpiryAtArrival(now, expires_in) == clock + expires_in * MsPerSecond
NewExpiryInSeconds(now, expires_in) == now + expires_in

\* tokenExpiry = now + (data.expires_in * 1000)
NewExpiry(now, expires_in) == now + expires_in * MsPerSecond

\* The cache dropped by a failed exchange, and a success that keeps a token
\* already cached.
CacheAfterClearing(fl) ==
    IF fl.resp.ok
    THEN [token |-> fl.resp.access_token,
          expiry |-> NewExpiry(fl.now, fl.resp.expires_in)]
    ELSE [token |-> NullToken, expiry |-> 0]
CacheAfterFirstWins(fl) ==
    IF fl.resp.ok /\ cachedToken = NullToken
    THEN [token |-> fl.resp.access_token,
          expiry |-> NewExpiry(fl.now, fl.resp.expires_in)]
    ELSE [token |-> cachedToken, expiry |-> tokenExpiry]

\* A success that takes the new token but keeps the expiry when it is the
\* later one.
CacheAfterLaterExpiry(fl) ==
    IF fl.resp.ok
    THEN [token |-> fl.resp.access_token,
          expiry |-> IF tokenExpiry > NewExpiry(fl.now, fl.resp.expires_in)
                     THEN tokenExpiry
                     ELSE NewExpiry(fl.now, fl.resp.expires_in)]
    ELSE [token |-> cachedToken, expiry |-> tokenExpiry]

\* The cache after flow fl has handled its response: untouched by a failure,
\* overwritten from a success.
CacheAfter(fl) ==
    IF fl.resp.ok
    THEN [token |-> fl.resp.access_token,
          expiry |-> NewExpiry(fl.now, fl.resp.expires_in)]
    ELSE [token |-> cachedToken, expiry |-> tokenExpiry]

\* A failed exchange that falls back on the token in the cache.
StaleFallback(fl) ==
    IF cachedToken # NullToken THEN AfterToken(fl, cachedToken)
    ELSE Thrown([fl EXCEPT !.left = cachedToken], AuthFailed(fl.resp))

\* if (!response.ok) { ... throw new Error(...) }
ExchangeFailed(fl) == Thrown([fl EXCEPT !.left = cachedToken], AuthFailed(fl.resp))

\* The token as it was cached before the write.
ReturnsOldToken(fl) == AfterToken([fl EXCEPT !.wrote = TRUE], cachedToken)

\* cachedToken = data.access_token; ...; return cachedToken
ExchangeSucceeded(fl) == AfterToken([fl EXCEPT !.wrote = TRUE], CacheAfter(fl).token)

\* The body has been read.  Not ok: throw.  Ok: write the cache and return
\* the token just cached.
TokenBody(f) ==
    /\ flows[f].pc = "body"
    /\ cachedToken' = CacheAfter(flows[f]).token
    /\ tokenExpiry' = CacheAfter(flows[f]).expiry
    /\ \E until \in HonouredUntil(f) :
          validUntil' = IF flows[f].resp.ok /\ cachedToken' = flows[f].resp.access_token
                        THEN until
                        ELSE validUntil
    /\ Step(f, IF flows[f].resp.ok THEN ExchangeSucceeded(flows[f])
               ELSE ExchangeFailed(flows[f]))
    /\ UNCHANGED <<codec, clock, ticks, env>>

\* The Sheets request settling, with readConfig throwing where its request
\* failed.
SheetsResponseConfigThrows(f, out, m) ==
    /\ flows[f].pc = "sheets"
    /\ m = NoMin
    /\ LET fl == flows[f]
       IN Step(f, IF out # "ok" THEN Thrown(fl, Err("SheetsError"))
                  ELSE IF fl.caller = "appendOrder"
                       THEN [fl EXCEPT !.pc = "append", !.sheets = 2]
                       ELSE Returned(fl, IF fl.caller = "readConfig" THEN "config"
                                         ELSE "products"))
    /\ UNCHANGED <<validUntil, codec, clock, ticks, env, cachedToken, tokenExpiry>>

\* The entry point's first Sheets request settles with out; m is the
\* MIN_TOTAL of the Config sheet (NoMin: the sheet has none).
\*   readProducts: a non-success response or a rejection throws.
\*   readConfig: the fetch is inside try: both give null; a success gives
\*     the parsed config.
\*   appendOrder: the header row was read; a failure throws, a success
\*     issues the append POST.
SheetsResponse(f, out, m) ==
    /\ flows[f].pc = "sheets"
    /\ LET fl == flows[f]
       IN CASE fl.caller = "readProducts" ->
                 /\ m = NoMin
                 /\ Step(f, IF out = "ok" THEN Returned(fl, "products")
                            ELSE Thrown(fl, Err("SheetsError")))
            [] fl.caller = "readCategories" ->
                 /\ m = NoMin
                 /\ Step(f, IF out = "ok" THEN Returned(fl, "categories")
                            ELSE Thrown(fl, Err("SheetsError")))
            [] fl.caller = "readConfig" ->
                 /\ out # "ok" => m = NoMin
                 /\ Step(f, IF out = "ok"
                            THEN Returned([fl EXCEPT !.min = m], "config")
                            ELSE Returned(fl, "null"))
            [] OTHER ->
                 /\ m = NoMin
                 /\ Step(f, IF out = "ok"
                            THEN [fl EXCEPT !.pc = "append", !.sheets = 2]
                            ELSE Thrown(fl, Err("SheetsError")))
    /\ UNCHANGED <<validUntil, codec, clock, ticks, env, cachedToken, tokenExpiry>>

\* appendOrder's append POST settles.
AppendResponse(f, out) ==
    /\ flows[f].pc = "append"
    /\ Step(f, IF out = "ok" THEN Returned(flows[f], "inserted")
               ELSE Thrown(flows[f], Err("SheetsError")))
    /\ UNCHANGED <<validUntil, codec, clock, ticks, env, cachedToken, tokenExpiry>>

\* The steps of getAccessToken.
BrokerStep ==
    \E f \in Flows :
        \/ GenerateJWTDone(f)
        \/ \E r \in TokenResponses(f) : TokenResponse(f, r)
        \/ TokenReject(f)
        \/ TokenBody(f)

\* The steps of getAccessToken when every success response has its
\* expires_in in es.
BrokerStepWith(es) ==
    \E f \in Flows :
        \/ GenerateJWTDone(f)
        \/ \E r \in {x \in TokenResponses(f) : x.ok => x.expires_in \in es} :
                TokenResponse(f, r)
        \/ TokenReject(f)
        \/ TokenBody(f)

\* The steps of the entry points after getAccessToken, with the Config
\* sheet's MIN_TOTAL drawn from mins.
SheetsStep(mins) ==
    \E f \in Flows :
        \/ \E out \in SheetsOutcomes, m \in mins : SheetsResponse(f, out, m)
        \/ \E out \in SheetsOutcomes : AppendResponse(f, out)

\* The credential broker alone: getAccessToken called at any time, any
\* number of calls in flight.
Next ==
    \/ Tick
    \/ Call
    \/ BrokerStep

Spec == Init /\ [][Next]_vars

\* The worker: product listings and orders that pass the checks of their
\* body, the Config sheet without MIN_TOTAL.
NextWorker ==
    \/ Tick
    \/ HandleGetProducts
    \/ HandleSaveOrder(GoodOrder)
    \/ BrokerStep
    \/ SheetsStep({NoMin})

SpecWorker == Init /\ [][NextWorker]_vars

\* The worker with its three API routes.
NextRoutes ==
    \/ Tick
    \/ HandleGetProducts
    \/ HandleGetCategories
    \/ HandleSaveOrder(GoodOrder)
    \/ BrokerStep
    \/ SheetsStep({NoMin})

SpecRoutes == Init /\ [][NextRoutes]_vars

\* The token endpoint settles the fetch of flow f: a response or a rejection.
FetchSettles(f) ==
    \/ \E r \in TokenResponses(f) : TokenResponse(f, r)
    \/ TokenReject(f)

\* The broker with what the runtime and the network guarantee each call:
\* crypto.subtle settles, the call's own fetch settles, the body is read.
Fairness ==
    \A f \in Flows :
        /\ WF_vars(GenerateJWTDone(f))
        /\ WF_vars(FetchSettles(f))
        /\ WF_vars(TokenBody(f))

SpecLive == Init /\ [][Next]_vars /\ Fairness

\* The broker against a token endpoint that always grants the same lifetime.
SameExpiresIn == 3600

NextSameExpiry ==
    \/ Tick
    \/ Call
    \/ BrokerStepWith({SameExpiresIn})

SpecSameExpiry == Init /\ [][NextSameExpiry]_vars

\* The order route alone, with every kind of order body and a Config sheet
\* with or without MIN_TOTAL, at one instant (a token of 60 s is stale at
\* once, one of 3600 s is fresh).
NextOrders ==
    \/ \E order \in Orders : HandleSaveOrder(order)
    \/ BrokerStep
    \/ SheetsStep({NoMin} \cup SheetMinTotals)

SpecOrders == Init /\ [][NextOrders]_vars

\* The encoder alone.
NextCodec ==
    \/ EncodeCall
    \/ AssembleCall

SpecCodec == InitCodec /\ [][NextCodec]_vars

\* The broker started at a clock value that is no whole second (a value
\* of Date.now() scaled to fit 32-bit integers).
StartClock == 1700000999
InitSigner == InitAt(StartClock)
SpecSigner == InitSigner /\ [][Next]_vars

\* ------------------------------------------------------ properties
\* Flow f enters getAccessToken in this step.
Enters(f) == ~flows[f].entered /\ flows'[f].entered

\* Flow f gets a token back from getAccessToken without having hit the cache.
ReturnedOwn(f) == ~flows[f].hit /\ flows[f].tok # NullToken

\* C1: a call whose entry clock satisfies now >= tokenExpiry - 60000 (the
\* boundary included) does not return the cached token: at entry it returns
\* nothing, and whatever a call that missed the cache returns later is the
\* token of the exchange that call itself posted.
C1_NoStaleTokenReturned ==
    /\ [][\A f \in Flows :
            (Enters(f) /\ clock >= tokenExpiry - 60000)
                => (~flows'[f].hit /\ flows'[f].tok = NullToken)]_vars
    /\ [](\A f \in Flows :
            ReturnedOwn(f) => (flows[f].tok = f /\ flows[f].posted /\ flows[f].wrote))

\* A call entered with a token in the cache, missed, and came back with the
\* token of its own exchange.
C1_Witness ==
    \E f \in Flows :
        flows[f].seenTok # NullToken /\ ReturnedOwn(f) /\ flows[f].tok = f

\* Flow f handles its token-endpoint response in this step.
HandlesBody(f) == flows[f].pc = "body" /\ flows'[f].pc # "body"

\* The errors of key import and signing.
KeyErrors == {"TypeError", "InvalidCharacterError", "DataError", "OperationError"}

\* The flows that have issued a token-endpoint POST.
Posted == {f \in Flows : flows[f].posted}

\* C2: a call that receives a non-success response fails with an error that
\* carries the response's status and body text, returns no token, and the
\* cache is left exactly as it was, in NoToken as in HasToken.
C2_FailureLeavesCache ==
    [][\A f \in Flows :
        (HandlesBody(f) /\ ~flows[f].resp.ok)
            => /\ flows'[f].pc = "done"
               /\ flows'[f].err = [kind |-> "GoogleAuthFailed",
                                   status |-> flows[f].resp.status,
                                   text |-> flows[f].resp.text]
               /\ flows'[f].tok = NullToken
               /\ cachedToken' = cachedToken
               /\ tokenExpiry' = tokenExpiry]_vars

\* An exchange has failed with 401 while a token was cached, and that token
\* is still the cached one.
C2_Witness ==
    \E f \in Flows :
        /\ flows[f].err.kind = "GoogleAuthFailed"
        /\ flows[f].err.status = 401
        /\ flows[f].left # NullToken
        /\ cachedToken = flows[f].left

\* C3: once an exchange has failed and left a stale token v in the cache,
\* a later call that enters while v is still stale starts an exchange of its
\* own, and it comes back with that exchange's token or with a failure,
\* never with v; so it is after any number of failures.
C3_NoStaleFallback ==
    /\ [][\A f \in Flows :
            (Enters(f) /\ FailedWith(cachedToken) /\ clock >= tokenExpiry - 60000)
                => /\ flows'[f].pc = "jwt"
                   /\ ~flows'[f].hit
                   /\ flows'[f].tok = NullToken]_vars
    /\ [](\A f \in Flows :
            (flows[f].afterFail /\ ~flows[f].hit)
                => /\ flows[f].tok \in {NullToken, f}
                   /\ flows[f].tok # NullToken => flows[f].posted
                   /\ flows[f].pc = "done"
                        => (flows[f].tok = f \/ flows[f].err.kind # "none"))

\* After an exchange failed with token v cached, a later call entered with v
\* still cached, missed, and came back with the token of its own exchange.
C3_Witness ==
    \E f, g \in Flows :
        /\ f # g
        /\ flows[g].err.kind = "GoogleAuthFailed"
        /\ flows[g].left # NullToken
        /\ flows[f].afterFail
        /\ flows[f].seenTok = flows[g].left
        /\ ~flows[f].hit
        /\ flows[f].tok = f

\* C4: of the first two calls of the process, when the first has succeeded
\* and the second enters with tokenExpiry - now > 60000, the second returns
\* the very token the first returned, at once and without a POST; the two
\* calls have issued one exchange in all.
C4_Idempotent ==
    /\ [][(Enters(2) /\ flows[1].tok # NullToken /\ tokenExpiry - clock > 60000)
            => /\ flows'[2].tok = flows[1].tok
               /\ flows'[2].pc = "done"
               /\ ~flows'[2].posted]_vars
    /\ []((flows[1].tok # NullToken /\ flows[2].hit
            /\ \A f \in Flows : f > 2 => ~flows[f].entered)
              => (flows[2].tok = flows[1].tok /\ Cardinality(Posted) = 1))

\* Two calls only: the first exchanged, the second got the same token from
\* the cache.
C4_Witness ==
    /\ flows[1].wrote
    /\ flows[2].hit
    /\ flows[2].tok = flows[1].tok
    /\ \A f \in Flows : f > 2 => ~flows[f].entered
    /\ Cardinality(Posted) = 1

\* C5: a call that enters with a token cached and now >= tokenExpiry - 60000
\* starts an exchange, a call that enters before that instant starts none;
\* a call posts at most once; and when the exchange of a call that saw a
\* token succeeds, the call returns the new token, which replaces the
\* cached one.
C5_RefreshCorrect ==
    /\ [][\A f \in Flows :
            (Enters(f) /\ cachedToken # NullToken)
                => IF clock >= tokenExpiry - 60000
                   THEN flows'[f].pc = "jwt" /\ flows'[f].signing
                   ELSE flows'[f].hit /\ ~flows'[f].signing]_vars
    /\ [][\A f \in Flows :
            /\ flows[f].posted => flows'[f].posted
            /\ flows'[f].posted /\ ~flows[f].posted
                    => flows[f].pc = "jwt" /\ flows'[f].pc = "fetch"
            /\ flows'[f].pc = "jwt" => ~flows[f].posted]_vars
    /\ [][\A f \in Flows :
            (HandlesBody(f) /\ flows[f].resp.ok /\ flows[f].seenTok # NullToken)
                => /\ flows'[f].tok = flows[f].resp.access_token
                   /\ cachedToken' = flows[f].resp.access_token
                   /\ cachedToken' # flows[f].seenTok]_vars

\* A call that entered at 3540000 with a token cached has exchanged and
\* replaced it with its own, of 3600 s.
C5_Witness ==
    \E f \in Flows :
        /\ flows[f].seenTok # NullToken
        /\ flows[f].wrote
        /\ flows[f].tok = f
        /\ cachedToken = f
        /\ tokenExpiry = 3540000 + 3600000

\* C6: a successful response {access_token, expires_in} makes the call store
\* cachedToken = access_token and tokenExpiry = now + expires_in * 1000 and
\* return access_token, now being the clock the call read at its entry,
\* which it keeps until then.
C6_StoresFromEntryTime ==
    /\ [][\A f \in Flows :
            (Enters(f) /\ flows'[f].pc = "jwt") => flows'[f].now = clock]_vars
    /\ [][\A f \in Flows :
            (flows[f].pc \in {"jwt", "fetch", "body"}
             /\ flows'[f].pc \in {"jwt", "fetch", "body"})
                => flows'[f].now = flows[f].now]_vars
    /\ [][\A f \in Flows :
            (HandlesBody(f) /\ flows[f].resp.ok)
                => /\ cachedToken' = flows[f].resp.access_token
                   /\ tokenExpiry' = flows[f].now + flows[f].resp.expires_in * 1000
                   /\ flows'[f].tok = flows[f].resp.access_token
                   /\ flows'[f].err.kind = "none"]_vars

\* A call that entered at 0 has cached its token of 3600 s, and the clock
\* has moved on since its entry.
C6_Witness ==
    \E f \in Flows :
        /\ flows[f].wrote
        /\ cachedToken = f
        /\ tokenExpiry = 3600000
        /\ clock = 3540000

\* C8: a call that enters with a token cached and now < tokenExpiry - 60000
\* returns that token at once, without signing, without a POST and with the
\* cache as it was; a call that hit the cache never signs, posts or writes,
\* so that a POST comes only from a call that found the cache missing or
\* stale at its entry.
C8_HitHasNoEffect ==
    /\ [][\A f \in Flows :
            (Enters(f) /\ cachedToken # NullToken /\ clock < tokenExpiry - 60000)
                => /\ flows'[f].hit
                   /\ flows'[f].tok = cachedToken
                   /\ ~flows'[f].signing
                   /\ ~flows'[f].posted
                   /\ cachedToken' = cachedToken
                   /\ tokenExpiry' = tokenExpiry]_vars
    /\ [][\A f \in Flows :
            (Enters(f) /\ flows'[f].hit)
                => (cachedToken # NullToken /\ clock < tokenExpiry - 60000)]_vars
    /\ [](\A f \in Flows :
            flows[f].hit => (~flows[f].signing /\ ~flows[f].posted /\ ~flows[f].wrote))

\* A call has returned the cached token, which is still the cached one.
C8_Witness ==
    \E f \in Flows :
        /\ flows[f].hit
        /\ flows[f].tok = flows[f].seenTok
        /\ flows[f].tok # NullToken
        /\ cachedToken = flows[f].tok

\* C10: a call in which the key import or the signing fails ends with that
\* error, having issued no POST, returned no token and written nothing; and
\* the step in which it fails leaves the cache as it was.  With a key that
\* cannot sign, no call ever posts.
C10_SignerFailureIsFatal ==
    /\ [](\A f \in Flows :
            flows[f].err.kind \in KeyErrors
                => /\ flows[f].pc = "done"
                   /\ ~flows[f].posted
                   /\ ~flows[f].wrote
                   /\ flows[f].tok = NullToken)
    /\ [](env.key # "valid" => \A f \in Flows : ~flows[f].posted)
    /\ [](\A f \in Flows :
            (env.key # "valid" /\ flows[f].entered)
                => (flows[f].pc = "jwt" \/ flows[f].err.kind \in KeyErrors))
    /\ [][\A f \in Flows :
            (flows[f].err.kind = "none" /\ flows'[f].err.kind \in KeyErrors)
                => (cachedToken' = cachedToken /\ tokenExpiry' = tokenExpiry)]_vars

\* The signing of a call has failed: the call is over without a POST.
C10_Witness ==
    \E f \in Flows :
        /\ flows[f].err.kind = "OperationError"
        /\ flows[f].signing
        /\ ~flows[f].posted

\* The cache is missing or stale at the current clock.
MissingOrStale == cachedToken = NullToken \/ clock >= tokenExpiry - 60000

\* The flows that enter getAccessToken in this step.
Entering == {f \in Flows : ~flows[f].entered /\ flows'[f].entered}

\* C7: every call that runs its cache check while the token is missing or
\* stale, whatever other calls are in flight, misses and signs for itself;
\* a call that missed returns only the token of its own exchange, which it
\* posted itself; the cache changes only when a call handles its success
\* response, and then holds that call's token and expiry, whatever was
\* written before; and GET /api/products on a cold cache with both identity
\* fields set starts two such calls at once.
C7_Stampede ==
    /\ [][\A f \in Entering :
            MissingOrStale
                => /\ ~flows'[f].hit
                   /\ flows'[f].tok = NullToken
                   /\ \/ flows'[f].pc = "jwt" /\ flows'[f].signing
                      \/ flows'[f].err.kind \in KeyErrors]_vars
    /\ [](\A f \in Flows :
            (flows[f].entered /\ ~flows[f].hit /\ flows[f].tok # NullToken)
                => /\ flows[f].tok = f
                   /\ flows[f].signing
                   /\ flows[f].posted
                   /\ flows[f].wrote)
    /\ [][(cachedToken' # cachedToken \/ tokenExpiry' # tokenExpiry)
            => \E f \in Flows :
                /\ HandlesBody(f)
                /\ flows[f].resp.ok
                /\ flows'[f].wrote
                /\ cachedToken' = f
                /\ tokenExpiry' = flows[f].now + flows[f].resp.expires_in * 1000]_vars
    /\ [][\A f \in Flows :
            (HandlesBody(f) /\ flows[f].resp.ok)
                => /\ cachedToken' = f
                   /\ tokenExpiry' = flows[f].now + flows[f].resp.expires_in * 1000]_vars
    /\ [][(/\ Len(reqs') = Len(reqs) + 1
           /\ reqs'[Len(reqs')].kind = "products"
           /\ cachedToken = NullToken
           /\ env.email \notin {"missing", "empty"}
           /\ env.key \notin {"missing", "empty"})
            => /\ Cardinality(Entering) = 2
               /\ \A f \in Entering : ~flows'[f].hit
               /\ env.key # "malformed"
                    => \A f \in Entering : flows'[f].pc = "jwt"]_vars

\* One GET /api/products on a cold cache: readProducts (flow 1) and
\* readConfig (flow 2) both found no token, both exchanged, flow 2 wrote
\* first and flow 1 last: the cache holds flow 1's.
C7_Witness ==
    /\ Len(reqs) >= 1
    /\ reqs[1].kind = "products"
    /\ flows[1].caller = "readProducts" /\ flows[2].caller = "readConfig"
    /\ flows[1].req = 1 /\ flows[2].req = 1
    /\ flows[1].seenTok = NullToken /\ flows[2].seenTok = NullToken
    /\ flows[1].wrote /\ flows[2].wrote
    /\ flows[1].tok = 1 /\ flows[2].tok = 2
    /\ cachedToken = 1
    /\ tokenExpiry = 3600000

\* C9: with GOOGLE_CLIENT_EMAIL or GOOGLE_PRIVATE_KEY missing or empty, no
\* flow of readProducts, appendOrder or readConfig ever issues a POST to the
\* token endpoint or a Sheets request.
C9_ConfigCheckedBeforeNetwork ==
    (env.email \in {"missing", "empty"} \/ env.key \in {"missing", "empty"})
        => \A f \in Flows :
            flows[f].caller \in {"readProducts", "appendOrder", "readConfig"}
                => (~flows[f].posted /\ flows[f].sheets = 0)

\* The failures the credential broker surfaces: configuration, key import,
\* signing, exchange.
BrokerErrors ==
    KeyErrors \cup {"MISSING_SECRET", "MISSING_VAR", "ConfigurationError",
                    "GoogleAuthFailed", "NetworkError"}

\* Flow f fails with a broker failure in this step.
BrokerFails(f) ==
    flows[f].err.kind = "none" /\ flows'[f].err.kind \in BrokerErrors

\* C11: when a flow started for GET /api/products, GET /api/categories or
\* POST /api/orders fails with a broker failure, its request is answered 500
\* in the same turn and stays answered 500; and a POST /api/orders one of
\* whose flows so failed has issued no append to the sheet.
C11_BrokerFailureIs500 ==
    /\ [][\A f \in Flows :
            (BrokerFails(f) /\ flows'[f].req # 0)
                => reqs'[flows'[f].req].status = 500]_vars
    /\ [](\A f \in Flows :
            (flows[f].req # 0 /\ flows[f].err.kind \in BrokerErrors)
                => /\ reqs[flows[f].req].status = 500
                   /\ reqs[flows[f].req].kind \in {"products", "categories", "order"}
                   /\ reqs[flows[f].req].kind = "order"
                        => \A g \in Flows :
                              flows[g].req = flows[f].req
                                => /\ flows[g].pc # "append"
                                   /\ flows[g].sheets < 2
                                   /\ flows[g].val # "inserted")

\* A POST /api/orders has been answered 500 for an exchange that failed in
\* appendOrder after readConfig had returned, and a GET /api/categories for
\* a broker failure.
C11_Witness ==
    \E f, g, h \in Flows :
        /\ flows[f].caller = "appendOrder"
        /\ flows[f].err.kind = "GoogleAuthFailed"
        /\ reqs[flows[f].req].status = 500
        /\ flows[h].caller = "readConfig"
        /\ flows[h].req = flows[f].req
        /\ flows[h].val \in {"config", "null"}
        /\ flows[g].caller = "readCategories"
        /\ flows[g].err.kind \in BrokerErrors
        /\ reqs[flows[g].req].status = 500

\* C12: every assertion a getAccessToken call holds has exp - iat = 3600
\* and iat = floor(now / 1000), now being the clock that call read at its
\* entry; its header is {alg: RS256, typ: JWT}, its iss the client email
\* supplied, its scope and aud the spreadsheet scope and the token endpoint.
C12_AssertionClaims ==
    /\ [][\A f \in Flows :
            (Enters(f) /\ flows'[f].pc = "jwt")
                => /\ flows'[f].jwt # NoJwt
                   /\ flows'[f].jwt.claims.iat = clock \div 1000
                   /\ flows'[f].jwt.claims.iat * 1000 <= flows'[f].now
                   /\ flows'[f].now < (flows'[f].jwt.claims.iat + 1) * 1000]_vars
    /\ [](\A f \in Flows :
            flows[f].pc \in {"jwt", "fetch", "body"}
                => /\ flows[f].jwt.claims.exp - flows[f].jwt.claims.iat = 3600
                   /\ flows[f].jwt.claims.iat = flows[f].now \div 1000
                   /\ flows[f].jwt.header = [alg |-> "RS256", typ |-> "JWT"]
                   /\ flows[f].jwt.claims.iss = env.email
                   /\ flows[f].jwt.claims.scope
                        = "https://www.googleapis.com/auth/spreadsheets"
                   /\ flows[f].jwt.claims.aud
                        = "https://oauth2.googleapis.com/token")

\* A call that entered at 1700000999 has posted an assertion issued at
\* 1700000 that expires at 1703600.
C12_Witness ==
    \E f \in Flows :
        /\ flows[f].pc = "fetch"
        /\ flows[f].now = 1700000999
        /\ flows[f].jwt.claims.iat = 1700000
        /\ flows[f].jwt.claims.exp = 1703600
        /\ flows[f].jwt.claims.iss = "valid"

\* The sextet a base64 character stands for.
CharIndex(c) == CHOOSE i \in 0..63 : Base64Chars[i + 1] = c

\* atob(text) for padded base64 text: four characters give three code
\* units, fewer where the group ends in '='.
RECURSIVE Atob(_)
Atob(text) ==
    IF Len(text) < 4 THEN <<>>
    ELSE LET i1 == CharIndex(text[1])
             i2 == CharIndex(text[2])
             i3 == IF text[3] = "=" THEN 0 ELSE CharIndex(text[3])
             i4 == IF text[4] = "=" THEN 0 ELSE CharIndex(text[4])
             b1 == i1 * 4 + (i2 \div 16)
             b2 == (i2 % 16) * 16 + (i3 \div 4)
             b3 == (i3 % 4) * 64 + i4
         IN IF text[3] = "=" THEN <<b1>>
            ELSE IF text[4] = "=" THEN <<b1, b2>>
            ELSE <<b1, b2, b3>> \o Atob(SubSeq(text, 5, Len(text)))

\* The padding put back: '=' up to a multiple of four characters.
Padded(text) ==
    text \o [i \in 1..((4 - (Len(text) % 4)) % 4) |-> "="]

\* Decoding of base64url text: '-' and '_' restored to '+' and '/', the
\* padding restored, then atob.
Base64UrlDecode(text) ==
    Atob(Padded(ReplaceAll(ReplaceAll(text, "-", "+"), "_", "/")))

\* The characters of text are none of '+', '/', '='.
UrlSafe(text) == \A i \in 1..Len(text) : text[i] \notin {"+", "/", "="}

\* text.split('.')
RECURSIVE Segments(_)
Segments(text) ==
    IF \A i \in 1..Len(text) : text[i] # "." THEN <<text>>
    ELSE LET i == CHOOSE k \in 1..Len(text) :
                    text[k] = "." /\ \A j \in 1..(k - 1) : text[j] # "."
         IN <<SubSeq(text, 1, i - 1)>> \o Segments(SubSeq(text, i + 1, Len(text)))

\* C13: what base64UrlEncode makes of a string holds no '+', no '/' and no
\* '=', and decodes to the string; an assembled assertion splits on '.' into
\* three non-empty segments, none with '+', '/' or '=', the first decoding
\* to the header's JSON text and the second to the claim set's.
C13_Base64UrlRoundTrip ==
    /\ codec.encoded
            => /\ UrlSafe(codec.out)
               /\ Base64UrlDecode(codec.out) = codec.str
    /\ codec.jwt # <<>>
            => LET seg == Segments(codec.jwt)
               IN /\ Len(seg) = 3
                  /\ \A k \in 1..3 : seg[k] # <<>> /\ UrlSafe(seg[k])
                  /\ Base64UrlDecode(seg[1]) = HeaderJson
                  /\ Base64UrlDecode(seg[2]) = ClaimsJson(codec.str)

\* A string whose base64 text has '+', '/' and padding has been encoded,
\* and an assertion assembled whose header segment is that of
\* {"alg":"RS256","typ":"JWT"}.
C13_Witness ==
    /\ codec.encoded
    /\ Len(codec.str) % 3 = 1
    /\ \E i, j \in 1..Len(codec.out) : codec.out[i] = "-" /\ codec.out[j] = "_"
    /\ \E i \in 1..Len(Btoa(codec.str)) : Btoa(codec.str)[i] = "="
    /\ codec.jwt # <<>>
    /\ Segments(codec.jwt)[1] =
        <<"e", "y", "J", "h", "b", "G", "c", "i", "O", "i", "J", "S",
          "U", "z", "I", "1", "N", "i", "I", "s", "I", "n", "R", "5",
          "c", "C", "I", "6", "I", "k", "p", "X", "V", "C", "J", "9">>

\* The two states of the cache.
NoToken == cachedToken = NullToken /\ tokenExpiry = 0
HasToken == cachedToken # NullToken

\* C14: the cache is in NoToken or in HasToken, and in NoToken at the start;
\* it leaves NoToken only in the step in which a call handles a success
\* response, taking that response's token; a call entered in NoToken never
\* gets a token from the cache and goes on to generateJWT, whatever the
\* clock; and from HasToken no step leads back to NoToken.
C14_CacheStateMachine ==
    /\ (\A f \in Flows : ~flows[f].entered) => NoToken
    /\ [](NoToken \/ HasToken)
    /\ [][(NoToken /\ ~NoToken')
            => \E f \in Flows :
                /\ HandlesBody(f)
                /\ flows[f].resp.ok
                /\ cachedToken' = flows[f].resp.access_token
                /\ HasToken']_vars
    /\ [][\A f \in Entering :
            NoToken
                => /\ ~flows'[f].hit
                   /\ flows'[f].tok = NullToken
                   /\ \/ flows'[f].pc = "jwt" /\ flows'[f].signing
                      \/ flows'[f].err.kind \in KeyErrors]_vars
    /\ [][HasToken => HasToken']_vars

\* The cache left NoToken by the exchange of a call that entered in NoToken
\* after the clock had moved, and is in HasToken still after a later
\* exchange failed.
C14_Witness ==
    \E f, g \in Flows :
        /\ flows[f].seenTok = NullToken
        /\ flows[f].wrote
        /\ flows[g].err.kind = "GoogleAuthFailed"
        /\ flows[g].left # NullToken
        /\ HasToken
        /\ tokenExpiry > 3600000

\* Flow f is inside getAccessToken, suspended.
Suspended(f) == flows[f].entered /\ flows[f].pc # "done"

\* C15: a call suspended in getAccessToken waits for its own signing, its
\* own fetch or its own body only, and that step can be taken whatever the
\* other calls are doing; a step of one call changes no other call, and a
\* call that handles a success response returns its token whatever has
\* failed around it; so, its own steps being taken, every call that entered
\* completes.
C15_CallsDoNotBlock ==
    /\ [](\A f \in Flows :
            Suspended(f)
                => /\ flows[f].pc \in {"jwt", "fetch", "body"}
                   /\ flows[f].pc = "jwt" => ENABLED GenerateJWTDone(f)
                   /\ flows[f].pc = "fetch" => ENABLED FetchSettles(f)
                   /\ flows[f].pc = "body" => ENABLED TokenBody(f))
    /\ [][\A f, g \in Flows :
            (f # g /\ flows'[f] # flows[f]) => flows'[g] = flows[g]]_vars
    /\ [][\A f \in Flows :
            (HandlesBody(f) /\ flows[f].resp.ok)
                => /\ flows'[f].pc = "done"
                   /\ flows'[f].tok = flows[f].resp.access_token
                   /\ flows'[f].err.kind = "none"]_vars
    /\ \A f \in Flows :
            Suspended(f) ~> (flows[f].pc = "done"
                                /\ (flows[f].tok # NullToken \/ flows[f].err.kind # "none"))

\* Three calls were in flight at once; one has failed, one has returned its
\* token and one is still suspended at its fetch.
C15_Witness ==
    \E f, g, h \in Flows :
        /\ flows[f].seenTok = NullToken /\ flows[g].seenTok = NullToken
        /\ flows[h].seenTok = NullToken
        /\ flows[f].err.kind = "GoogleAuthFailed"
        /\ flows[g].wrote /\ flows[g].tok = g
        /\ flows[h].pc = "fetch"

\* C16: cachedToken and tokenExpiry change in the same step or not at all:
\* a step that changes either is the step in which one call handles its
\* success response, and it leaves the token of that response paired with
\* the expiry computed from that call's entry clock and that response's
\* expires_in, whatever pair was there and whatever other calls are
\* suspended; the token cached is always that of a call that wrote.
C16_PairFromOneExchange ==
    /\ [][(cachedToken' # cachedToken \/ tokenExpiry' # tokenExpiry)
            => \E f \in Flows :
                /\ HandlesBody(f)
                /\ flows[f].resp.ok
                /\ cachedToken' = flows[f].resp.access_token
                /\ tokenExpiry' = flows[f].now + flows[f].resp.expires_in * 1000
                /\ \A g \in Flows : g # f => flows'[g] = flows[g]]_vars
    /\ [](HasToken => (cachedToken \in Flows /\ flows[cachedToken].wrote
                        /\ flows[cachedToken].tok = cachedToken))
    /\ [](NoToken \/ (HasToken /\ tokenExpiry > 0))

\* Two exchanges that started at clock 0 are interleaved: the cache holds
\* the pair of call 1 (3600 s) while call 2, suspended, holds a response of
\* 60 s whose pair it has not written yet.
C16_Witness ==
    /\ cachedToken = 1
    /\ tokenExpiry = 3600000
    /\ flows[2].pc = "body"
    /\ flows[2].resp.ok
    /\ flows[2].resp.expires_in = 60
    /\ flows[2].now = 0

\* C17 as claimed: with every success response granting the same expires_in
\* and the clock never going back, no step lowers tokenExpiry.
C17_ExpiryNeverDecreases == [][tokenExpiry' >= tokenExpiry]_vars

\* C17, amended: with every success response granting the same expires_in
\* and the clock never going back, a step lowers tokenExpiry only when a
\* call writes the cache that entered getAccessToken before the call whose
\* token it replaces (calls are numbered in the order of their entry); the
\* write of a call that entered later than the one whose token it replaces,
\* or that finds no token, never lowers it.
C17_ExpiryDecreasesOnlyOutOfOrder ==
    /\ [][tokenExpiry' < tokenExpiry
            => \E f \in Flows :
                /\ HandlesBody(f)
                /\ flows[f].resp.ok
                /\ HasToken
                /\ f < cachedToken
                /\ cachedToken' = f]_vars
    /\ [][\A f \in Flows :
            (HandlesBody(f) /\ flows[f].resp.ok /\ cachedToken < f)
                => tokenExpiry' >= tokenExpiry]_vars

\* Call 2, entered after call 1 had written, has replaced call 1's token at
\* the refresh threshold and raised tokenExpiry.
C17_Witness ==
    /\ flows[1].wrote
    /\ flows[2].seenTok = 1
    /\ flows[2].wrote
    /\ cachedToken = 2
    /\ tokenExpiry = 3540000 + 3600000

\* C18: the token endpoint honouring each token for expires_in seconds
\* from a time no earlier than the entry of the call that asked for it, the
\* expiry recorded with the cached token is never later than the time
\* until which that token is honoured, and a call that gets the token from
\* the cache gets it more than 60000 ms before that time.
C18_CachedTokenStillValid ==
    /\ [](HasToken => tokenExpiry <= validUntil)
    /\ [][\A f \in Entering :
            flows'[f].hit
                => /\ flows'[f].tok = cachedToken
                   /\ validUntil - clock > 60000]_vars

\* A token asked for at 0 and issued at 1770000 for 3600 s is recorded as
\* expiring at 3600000, is honoured until 5370000, and has been returned
\* from the cache at 1770000.
C18_Witness ==
    \E f \in Flows :
        /\ flows[f].hit
        /\ flows[f].tok = cachedToken
        /\ clock = 1770000
        /\ tokenExpiry = 3600000
        /\ validUntil = 1770000 + 3600000

\* The flows of readConfig.
ConfigFlows == {f \in Flows : flows[f].caller = "readConfig"}

\* C19 as claimed: readConfig never throws.
C19_ReadConfigNeverThrows ==
    \A f \in ConfigFlows : flows[f].err.kind = "none"

\* C19, amended: once readConfig has its token, it never throws: a Config
\* request that fails (non-success response or rejected fetch) makes it
\* return null, and the handler goes on with the default rules: the order
\* that meets the default MIN_TOTAL is handed to appendOrder, the product
\* listing is answered 200 when readProducts has returned.  Only a failure
\* of getAccessToken, before any Sheets request, is thrown on to the
\* caller.
C19_ReadConfigFallsBackAfterToken ==
    /\ [](\A f \in ConfigFlows :
            /\ flows[f].sheets >= 1 => flows[f].err.kind = "none"
            /\ flows[f].err.kind # "none"
                    => (flows[f].err.kind \in BrokerErrors /\ flows[f].tok = NullToken)
            /\ (flows[f].pc = "done" /\ flows[f].err.kind = "none")
                    => flows[f].val \in {"config", "null"})
    /\ [][\A f \in Flows :
            (flows[f].caller = "readConfig" /\ flows[f].pc = "sheets"
             /\ flows'[f].pc # "sheets")
                => /\ flows'[f].pc = "done"
                   /\ flows'[f].err.kind = "none"
                   /\ flows'[f].val \in {"config", "null"}]_vars
    /\ [](\A f \in ConfigFlows :
            (flows[f].val = "null" /\ reqs[flows[f].req].kind = "order")
                => /\ EffectiveMinTotal(flows[f].min) = 100000
                   /\ \E g \in Flows : /\ flows[g].caller = "appendOrder"
                                        /\ flows[g].req = flows[f].req)
    /\ [](\A f \in ConfigFlows :
            (flows[f].val = "null" /\ reqs[flows[f].req].kind = "products"
             /\ \E g \in Flows : /\ flows[g].req = flows[f].req
                                 /\ flows[g].val = "products")
                => reqs[flows[f].req].status = 200)

\* readConfig got its token, its Config request failed and it returned
\* null; the order went on to appendOrder under the default rules.
C19_Witness ==
    \E f, g \in Flows :
        /\ flows[f].caller = "readConfig"
        /\ flows[f].tok # NullToken
        /\ flows[f].sheets = 1
        /\ flows[f].val = "null"
        /\ reqs[flows[f].req].kind = "order"
        /\ flows[g].caller = "appendOrder"
        /\ flows[g].req = flows[f].req

\* The flows that request r started.
FlowsOf(r, caller) == {f \in Flows : flows[f].req = r /\ flows[f].caller = caller}

\* The order's total is a number and reaches min.
TotalReaches(order, min) ==
    LET rawTotal == RawTotal(order.items)
    IN ~rawTotal.nan /\ rawTotal.n >= min

\* C20: appendOrder is started only for an order with items, with a full
\* client and with a total, recomputed from numbers, that reaches the
\* effective MIN_TOTAL; an order that fails a check is answered 400 and
\* starts no appendOrder, an order whose price is not a number included.
C20_OnlyValidOrdersAppended ==
    \A r \in 1..Len(reqs) :
        reqs[r].kind = "order"
            => LET order == reqs[r].order
                   bodyOk == order.items # <<>> /\ order.client = "full"
               IN /\ ~bodyOk => (reqs[r].status = 400 /\ FlowsOf(r, "appendOrder") = {})
                  /\ \A f \in FlowsOf(r, "readConfig") :
                        (flows[f].pc = "done" /\ flows[f].err.kind = "none"
                         /\ ~TotalReaches(order, EffectiveMinTotal(flows[f].min)))
                            => (reqs[r].status = 400 /\ FlowsOf(r, "appendOrder") = {})
                  /\ FlowsOf(r, "appendOrder") # {}
                        => /\ bodyOk
                           /\ \E f \in FlowsOf(r, "readConfig") :
                                 TotalReaches(order, EffectiveMinTotal(flows[f].min))
====
